---- MODULE Spec2Model ----
(***************************************************************************)
(* The sales ETL pipeline (src/etl/pipeline.py) with its quality checks    *)
(* (src/etl/quality_checks.py) and transformations                         *)
(* (src/etl/transformations.py), as a state machine over the SQLite store  *)
(* (pipeline_runs, data_quality_logs, destination and staging tables), the *)
(* orchestrator's run_id and the position of the caller inside run().      *)
(***************************************************************************)
EXTENDS Integers, Sequences, FiniteSets, TLC

\* ------------------------------------------------------------------ bounds
\* rows held by all source files together
MaxRows == 2
\* calls of the entry points run(), extract(), transform(), load()
MaxCalls == 3

\* ------------------------------------------------------------------ values
\* a missing cell (pandas NaN / None, SQL NULL) of a numeric column
NULL == -999
\* a missing cell of the email column (a character sequence) and of the
\* other text columns
NullStr == <<"<NA>">>
NullText == "<NA>"
\* the evaluation time pd.Timestamp.now(), as YYYYMMDD
Now == 20250101
\* a sale_date text that pd.to_datetime cannot parse
BadDate == -1
\* run_id before any run was opened (self.run_id = None)
None == 0
\* a destination without merge_key (destination.get('merge_key') is falsy)
NoKey == ""

RECURSIVE SeqsUpTo(_, _)
\* all sequences over S of length at most n
SeqsUpTo(S, n) ==
    IF n = 0 THEN {<<>>}
    ELSE LET shorter == SeqsUpTo(S, n - 1)
         IN  shorter \cup {Append(s, x) : s \in {t \in shorter : Len(t) = n - 1}, x \in S}

Range(s) == {s[i] : i \in DOMAIN s}

\* ------------------------------------------------------------------ tables
\* An in-memory table (DataFrame): the set of its column names, whether the
\* sale_date column is datetime-typed, and its rows, each a record over the
\* base columns the table holds.  Derived columns are tracked by name.
SalesCols == {"sale_id", "product_id", "customer_id", "quantity", "amount", "sale_date"}
ProductCols == {"product_id", "product_name", "category", "price"}
CustomerCols == {"customer_id", "customer_name", "email", "region"}
ReturnCols == {"return_id", "amount"}

EntityCols(name) ==
    CASE name = "sales" -> SalesCols
      [] name = "products" -> ProductCols
      [] name = "customers" -> CustomerCols
      [] OTHER -> ReturnCols

\* the key column of a table, the primary key of the destination table
KeyCol(name) ==
    CASE name = "sales" -> "sale_id"
      [] name = "products" -> "product_id"
      [] name = "customers" -> "customer_id"
      [] OTHER -> "return_id"

EmailOk == <<"a", "@", "g">>
EmailNoAt == <<"a", "g">>

\* the (key, value) pairs the rows of the source files are built from: two
\* valid rows with distinct keys, a second value for key 1 whose amount is 0,
\* a row without key and a row whose amount is below the range
SamplePairs == {<<1, 5>>, <<2, 5>>, <<1, 0>>, <<NULL, 5>>, <<2, -1>>}

FileRow(name, k, v) ==
    CASE name = "sales" ->
            [sale_id |-> k, product_id |-> 101, customer_id |-> 201,
             quantity |-> 2, amount |-> v, sale_date |-> 20240101]
      [] name = "products" ->
            [product_id |-> k, product_name |-> "widget", category |-> "home", price |-> v]
      [] name = "customers" ->
            [customer_id |-> k, customer_name |-> "john doe",
             email |-> (IF v = 5 THEN EmailOk ELSE IF v = 0 THEN EmailNoAt ELSE NullStr),
             region |-> "north"]
      [] OTHER -> [return_id |-> k, amount |-> v]

\* the columns a file of that entity may lack: its key column, or a column
\* its transformation reads
DropChoices(name) ==
    CASE name = "sales" -> {{}, {"sale_id"}, {"sale_date"}}
      [] name = "products" -> {{}, {"product_id"}, {"price"}}
      [] name = "customers" -> {{}, {"customer_id"}, {"region"}}
      [] OTHER -> {{}}

Restrict(row, cols) == [c \in (DOMAIN row) \cap cols |-> row[c]]

MakeTable(name, drop, pairs) ==
    [cols |-> EntityCols(name) \ drop,
     datetime |-> FALSE,
     rows |-> [i \in 1..Len(pairs) |->
                 Restrict(FileRow(name, pairs[i][1], pairs[i][2]), EntityCols(name) \ drop)]]

FileTables(name) ==
    {MakeTable(name, drop, pairs) :
        drop \in DropChoices(name), pairs \in SeqsUpTo(SamplePairs, MaxRows)}

EmptyTable == [cols |-> {}, datetime |-> FALSE, rows |-> <<>>]

\* what a csv path holds: a table, or nothing that can be read
FileContents(name) ==
    {[readable |-> TRUE, table |-> t] : t \in FileTables(name)}
        \cup {[readable |-> FALSE, table |-> EmptyTable]}

\* ----------------------------------------------------------- configuration
\* The JSON configuration: ordered sources {name, type, path|query} and
\* ordered destinations {source, table, merge_key?}.  A csv source reads the
\* file of its name; a database source queries the table named by its query.
Src(n, t) == [name |-> n, type |-> t, query |-> n]
Dst(s, t, k) == [source |-> s, table |-> t, merge_key |-> k]

\* the configuration of the integration tests: one csv source, appended
CfgTest ==
    [pipeline_name |-> "test_pipeline",
     sources |-> <<Src("sales", "csv")>>,
     destinations |-> <<Dst("sales", "sales", NoKey)>>]
\* the same with an upsert
CfgMerge ==
    [pipeline_name |-> "merge_pipeline",
     sources |-> <<Src("sales", "csv")>>,
     destinations |-> <<Dst("sales", "sales", "sale_id")>>]
\* two sources, an upsert followed by an append
CfgMergeAppend ==
    [pipeline_name |-> "two_pipeline",
     sources |-> <<Src("sales", "csv"), Src("products", "csv")>>,
     destinations |-> <<Dst("sales", "sales", "sale_id"), Dst("products", "products", NoKey)>>]
\* two sources, an append followed by an upsert
CfgAppendMerge ==
    [pipeline_name |-> "two_pipeline",
     sources |-> <<Src("sales", "csv"), Src("products", "csv")>>,
     destinations |-> <<Dst("sales", "sales", NoKey), Dst("products", "products", "product_id")>>]
\* customers and a source without rule set; a destination whose source is not
\* configured, and one source appended to and then merged into a table that
\* pandas creates
CfgMixed ==
    [pipeline_name |-> "mixed_pipeline",
     sources |-> <<Src("customers", "csv"), Src("returns", "csv")>>,
     destinations |-> <<Dst("products", "products", "product_id"),
                        Dst("customers", "customers", "customer_id"),
                        Dst("returns", "returns", NoKey),
                        Dst("returns", "returns", "return_id")>>]
\* a database source reading the sales table, and an unsupported source type
CfgDatabase ==
    [pipeline_name |-> "db_pipeline",
     sources |-> <<Src("sales", "database")>>,
     destinations |-> <<Dst("sales", "sales", "sale_id")>>]
CfgUnsupported ==
    [pipeline_name |-> "xml_pipeline",
     sources |-> <<Src("sales", "csv"), Src("products", "xml")>>,
     destinations |-> <<Dst("sales", "sales", "sale_id")>>]

Configs == {CfgTest, CfgMerge, CfgMergeAppend, CfgAppendMerge, CfgMixed,
            CfgDatabase, CfgUnsupported}

CsvNames(cfg) == {cfg.sources[i].name : i \in {j \in DOMAIN cfg.sources : cfg.sources[j].type = "csv"}}

\* ------------------------------------------------------------------- store
\* The destination tables the schema creates, each with an INTEGER PRIMARY
\* KEY on its key column; any other table exists once pandas created it.
SchemaTables == {"sales", "products", "customers"}
TableNames == SchemaTables \cup {"returns"}

\* a row the destination table of the first destination may hold beforehand
Preloaded(name) == Restrict(FileRow(name, 1, 7), EntityCols(name))

RunStatus == {"STARTED", "COMPLETED", "FAILED"}
CheckTypes == <<"required_columns", "not_null_columns", "numeric_ranges",
                "unique_columns", "data_types", "custom_checks">>

VARIABLES
    config,             \* self.config
    files,              \* the csv files of the sources: name -> content
    tables,             \* committed destination tables: name -> rows
    tables0,            \* the destination tables when the orchestrator was built
    exists,             \* the destination tables that exist
    staging,            \* committed staging tables stg_<name>: name -> rows
    pipeline_runs,      \* the pipeline_runs table; run_id = position
    data_quality_logs,  \* the data_quality_logs table
    run_id,             \* self.run_id
    pc,                 \* the caller's position: idle, or a line of run(); new and
                        \* failed before and after a construction that raised
    held,               \* what the caller holds: none, extracted, transformed
    data,               \* the extracted or transformed tables held
    records_processed,  \* the value load() returned last
    error,              \* the text of the exception caught last
    ret,                \* how the last call ended: none (running), True, False (run),
                        \* extracted, transformed, loaded (a value returned), raised
    ncalls,             \* entry point calls made
    config_file,        \* the configuration file: its condition and what it holds
    call                \* the last call of a function of the transformer or the
                        \* quality manager made on its own: name, arguments, result

vars == <<config, files, tables, tables0, exists, staging, pipeline_runs, data_quality_logs,
          run_id, pc, held, data, records_processed, error, ret, ncalls,
          config_file, call>>

EmptyDict == [order |-> <<>>, tables |-> <<>>]
\* no function called on its own yet
NoCall == [fn |-> "none", arg |-> <<>>, out |-> <<>>]
\* a configuration file that json.load reads
ConfigFile(cfg) == [status |-> "ok", content |-> cfg]

RECURSIVE TotalRows(_)
TotalRows(f) ==
    IF DOMAIN f = {} THEN 0
    ELSE LET n == CHOOSE x \in DOMAIN f : TRUE
         IN  Len(f[n].table.rows) + TotalRows([x \in (DOMAIN f) \ {n} |-> f[x]])

\* files with an incomplete header
Incomplete(f) == {n \in DOMAIN f : f[n].readable /\ f[n].table.cols # EntityCols(n)}

RECURSIVE FileMaps(_)
\* the contents of the files named: at most MaxRows rows together, at most one
\* file with an incomplete header
FileMaps(names) ==
    IF names = {} THEN {<<>>}
    ELSE LET n == CHOOSE x \in names : TRUE
         IN  {g \in {[x \in (DOMAIN f) \cup {n} |-> IF x = n THEN c ELSE f[x]] :
                        f \in FileMaps(names \ {n}), c \in FileContents(n)} :
                 TotalRows(g) <= MaxRows /\ Cardinality(Incomplete(g)) <= 1}

Init ==
    /\ config \in Configs
    /\ config_file = ConfigFile(config)
    /\ call = NoCall
    /\ files \in FileMaps(CsvNames(config))
    /\ exists = SchemaTables
    /\ \E pre \in BOOLEAN :
          tables = [t \in TableNames |->
                      IF pre /\ t = config.destinations[1].table
                      THEN <<Preloaded(t)>> ELSE <<>>]
    /\ tables0 = tables
    /\ staging = [t \in TableNames |-> <<>>]
    /\ pipeline_runs = <<>>
    /\ data_quality_logs = <<>>
    /\ run_id = None
    /\ pc = "idle"
    /\ held = "none"
    /\ data = EmptyDict
    /\ records_processed = 0
    /\ error = ""
    /\ ret = "none"
    /\ ncalls = 0

\* ----------------------------------------------------------------- extract
\* a dict in insertion order: put(d, k, v) as d[k] = v
Put(d, k, v) ==
    [order |-> IF k \in Range(d.order) THEN d.order ELSE Append(d.order, k),
     tables |-> [n \in (DOMAIN d.tables) \cup {k} |-> IF n = k THEN v ELSE d.tables[n]]]

Ok(v) == [raised |-> FALSE, error |-> "", value |-> v]
Raise(e) == [raised |-> TRUE, error |-> e, value |-> EmptyDict]

\* the body of the loop of extract() for one source: the table read, or the
\* exception raised
ReadSource(source, fls, tbls, exs) ==
    IF source.type = "csv"
    THEN IF fls[source.name].readable
         THEN [raised |-> FALSE, error |-> "", table |-> fls[source.name].table]
         ELSE [raised |-> TRUE, error |-> "No such file or directory", table |-> EmptyTable]
    ELSE IF source.type = "database"
    THEN IF source.query \in exs
         THEN [raised |-> FALSE, error |-> "",
               table |-> [cols |-> EntityCols(source.query), datetime |-> FALSE,
                          rows |-> tbls[source.query]]]
         ELSE [raised |-> TRUE, error |-> "no such table", table |-> EmptyTable]
    ELSE [raised |-> TRUE, error |-> "Unsupported source type", table |-> EmptyTable]

RECURSIVE ExtractFrom(_, _, _, _, _, _)
ExtractFrom(i, acc, cfg, fls, tbls, exs) ==
    IF i > Len(cfg.sources) THEN Ok(acc)
    ELSE LET r == ReadSource(cfg.sources[i], fls, tbls, exs)
         IN  IF r.raised THEN Raise(r.error)
             ELSE ExtractFrom(i + 1, Put(acc, cfg.sources[i].name, r.table), cfg, fls, tbls, exs)

\* extract(): every source read in configuration order, or the first exception
ExtractSources(cfg, fls, tbls, exs) == ExtractFrom(1, EmptyDict, cfg, fls, tbls, exs)

\* ------------------------------------------------------------- transformer
Upper(s) ==
    CASE s = "home" -> "HOME"
      [] s = "north" -> "NORTH"
      [] OTHER -> s
Title(s) ==
    CASE s = "widget" -> "Widget"
      [] s = "john doe" -> "John Doe"
      [] OTHER -> s
LowerChar(c) ==
    CASE c = "A" -> "a"
      [] c = "G" -> "g"
      [] c = "John" -> "john"
      [] c = "GMAIL.com" -> "gmail.com"
      [] OTHER -> c
Lower(e) == IF e = NullStr THEN NullStr ELSE [i \in DOMAIN e |-> LowerChar(e[i])]
FillNa(v, d) == IF v = NULL THEN d ELSE v

\* the first column among needed (in the order the code reads them) that the
\* table lacks, "" when it has them all
FirstMissing(needed, cols) ==
    LET missing == {i \in DOMAIN needed : needed[i] \notin cols}
    IN  IF missing = {} THEN ""
        ELSE needed[CHOOSE i \in missing : \A j \in missing : i <= j]

TransformedRow(r, f) == [c \in DOMAIN r |-> IF c \in DOMAIN f THEN f[c] ELSE r[c]]

\* pd.to_datetime(df['sale_date']) raises: a text of the column is no date
Unparseable(df) ==
    /\ "sale_date" \in df.cols
    /\ ~df.datetime
    /\ \E i \in DOMAIN df.rows : df.rows[i].sale_date = BadDate

\* transform_sales_data: KeyError on a column it reads, ValueError on a date
\* it cannot parse; else sale_date becomes datetime, the derived columns are
\* added, missing quantity/amount become 0
transform_sales_data(df) ==
    LET miss == FirstMissing(<<"sale_date", "amount", "quantity">>, df.cols)
    IN  IF "sale_date" \in df.cols /\ Unparseable(df)
        THEN [raised |-> TRUE, error |-> "Unknown datetime string format", table |-> df]
        ELSE IF miss # "" THEN [raised |-> TRUE, error |-> miss, table |-> df]
        ELSE [raised |-> FALSE, error |-> "",
              table |-> [cols |-> df.cols \cup {"year", "month", "quarter", "day_of_week",
                                                "is_weekend", "price_per_unit", "transformed_at"},
                         datetime |-> TRUE,
                         rows |-> [i \in DOMAIN df.rows |->
                                     TransformedRow(df.rows[i],
                                        [quantity |-> FillNa(df.rows[i].quantity, 0),
                                         amount |-> FillNa(df.rows[i].amount, 0)])]]]

\* transform_product_data: name title-cased, category upper-cased, price_tier
transform_product_data(df) ==
    LET miss == FirstMissing(<<"product_name", "category", "price">>, df.cols)
    IN  IF miss # "" THEN [raised |-> TRUE, error |-> miss, table |-> df]
        ELSE [raised |-> FALSE, error |-> "",
              table |-> [cols |-> df.cols \cup {"price_tier", "transformed_at"},
                         datetime |-> df.datetime,
                         rows |-> [i \in DOMAIN df.rows |->
                                     TransformedRow(df.rows[i],
                                        [product_name |-> Title(df.rows[i].product_name),
                                         category |-> Upper(df.rows[i].category)])]]]

\* transform_customer_data: name, email and region standardized, segment added
transform_customer_data(df) ==
    LET miss == FirstMissing(<<"customer_name", "email", "region">>, df.cols)
    IN  IF miss # "" THEN [raised |-> TRUE, error |-> miss, table |-> df]
        ELSE [raised |-> FALSE, error |-> "",
              table |-> [cols |-> df.cols \cup {"email_domain", "customer_segment", "transformed_at"},
                         datetime |-> df.datetime,
                         rows |-> [i \in DOMAIN df.rows |->
                                     TransformedRow(df.rows[i],
                                        [customer_name |-> Title(df.rows[i].customer_name),
                                         email |-> Lower(df.rows[i].email),
                                         region |-> Upper(df.rows[i].region)])]]]

\* the dispatch of transform() by source name; other names pass unchanged
TransformTable(source_name, df) ==
    CASE source_name = "sales" -> transform_sales_data(df)
      [] source_name = "products" -> transform_product_data(df)
      [] source_name = "customers" -> transform_customer_data(df)
      [] OTHER -> [raised |-> FALSE, error |-> "", table |-> df]

\* ---------------------------------------------------------- quality checks
TextCols == {"product_name", "category", "customer_name", "region"}
IsNull(col, v) ==
    IF col = "email" THEN v = NullStr
    ELSE IF col \in TextCols THEN v = NullText
    ELSE v = NULL

\* self.rules; the customers rule set has no numeric_ranges
Rules ==
    [sales |->
        [required_columns |-> <<"sale_id", "product_id", "customer_id", "quantity", "amount", "sale_date">>,
         not_null_columns |-> <<"sale_id", "product_id", "customer_id", "sale_date">>,
         numeric_ranges |-> <<[col |-> "quantity", min |-> 0, max |-> 1000],
                              [col |-> "amount", min |-> 0, max |-> 1000000]>>,
         unique_columns |-> <<"sale_id">>],
     products |->
        [required_columns |-> <<"product_id", "product_name", "category", "price">>,
         not_null_columns |-> <<"product_id", "product_name">>,
         numeric_ranges |-> <<[col |-> "price", min |-> 0, max |-> 10000]>>,
         unique_columns |-> <<"product_id">>],
     customers |->
        [required_columns |-> <<"customer_id", "customer_name", "email", "region">>,
         not_null_columns |-> <<"customer_id", "customer_name">>,
         numeric_ranges |-> <<>>,
         unique_columns |-> <<"customer_id", "email">>]]

Count(df, P(_)) == Cardinality({i \in DOMAIN df.rows : P(df.rows[i])})

\* _check_required_columns
check_required_columns(df, required_columns) ==
    LET missing_columns == SelectSeq(required_columns, LAMBDA c : c \notin df.cols)
    IN  [passed |-> Len(missing_columns) = 0, details |-> missing_columns]

\* _check_not_null: the columns present with a non-zero null count
check_not_null(df, not_null_columns) ==
    LET nulls(c) == Count(df, LAMBDA r : IsNull(c, r[c]))
        present == SelectSeq(not_null_columns, LAMBDA c : c \in df.cols)
        flagged == SelectSeq(present, LAMBDA c : nulls(c) > 0)
    IN  [passed |-> Len(flagged) = 0,
         details |-> [i \in DOMAIN flagged |-> <<flagged[i], nulls(flagged[i])>>]]

\* _check_numeric_ranges as it would be with <= and >= for the comparisons
check_numeric_ranges_inclusive(df, numeric_ranges) ==
    LET below(g) == IF "min" \in DOMAIN g
                    THEN Count(df, LAMBDA r : r[g.col] # NULL /\ r[g.col] <= g.min) ELSE 0
        above(g) == IF "max" \in DOMAIN g
                    THEN Count(df, LAMBDA r : r[g.col] # NULL /\ r[g.col] >= g.max) ELSE 0
        present == SelectSeq(numeric_ranges, LAMBDA g : g.col \in df.cols)
        flagged == SelectSeq(present, LAMBDA g : below(g) > 0 \/ above(g) > 0)
    IN  [passed |-> Len(flagged) = 0,
         details |-> [i \in DOMAIN flagged |->
                        <<flagged[i].col, below(flagged[i]), above(flagged[i])>>]]

\* _check_numeric_ranges: values strictly below min, strictly above max; a
\* bound the range lacks is -inf / +inf, a missing value compares False
check_numeric_ranges(df, numeric_ranges) ==
    LET below(g) == IF "min" \in DOMAIN g
                    THEN Count(df, LAMBDA r : r[g.col] # NULL /\ r[g.col] < g.min) ELSE 0
        above(g) == IF "max" \in DOMAIN g
                    THEN Count(df, LAMBDA r : r[g.col] # NULL /\ r[g.col] > g.max) ELSE 0
        present == SelectSeq(numeric_ranges, LAMBDA g : g.col \in df.cols)
        flagged == SelectSeq(present, LAMBDA g : below(g) > 0 \/ above(g) > 0)
    IN  [passed |-> Len(flagged) = 0,
         details |-> [i \in DOMAIN flagged |->
                        <<flagged[i].col, below(flagged[i]), above(flagged[i])>>]]

\* _check_unique_columns: rows repeating the value of an earlier row
check_unique_columns(df, unique_columns) ==
    LET dups(c) == Cardinality({i \in DOMAIN df.rows :
                                  \E j \in 1..(i - 1) : df.rows[j][c] = df.rows[i][c]})
        present == SelectSeq(unique_columns, LAMBDA c : c \in df.cols)
        flagged == SelectSeq(present, LAMBDA c : dups(c) > 0)
    IN  [passed |-> Len(flagged) = 0,
         details |-> [i \in DOMAIN flagged |-> <<flagged[i], dups(flagged[i])>>]]

\* _check_data_types: for sales, sale_date must be datetime-typed (the numeric
\* columns of the tables modelled are numeric-typed)
check_data_types(df, table_name) ==
    LET issues == IF table_name = "sales" /\ "sale_date" \in df.cols /\ ~df.datetime
                  THEN <<<<"sale_date should be datetime type", 1>>>> ELSE <<>>
    IN  [passed |-> Len(issues) = 0, details |-> issues]

Issue(text, n) == IF n > 0 THEN <<<<text, n>>>> ELSE <<>>

\* _run_custom_checks
run_custom_checks(df, table_name) ==
    LET issues ==
          CASE table_name = "sales" ->
                 (IF "quantity" \in df.cols /\ "amount" \in df.cols
                  THEN Issue("records have quantity but zero amount",
                             Count(df, LAMBDA r : r.quantity # NULL /\ r.quantity > 0
                                                   /\ r.amount = 0))
                  ELSE <<>>)
                 \o (IF "sale_date" \in df.cols
                     THEN Issue("records have future sale dates",
                                Count(df, LAMBDA r : r.sale_date # NULL /\ r.sale_date > Now))
                     ELSE <<>>)
            [] table_name = "products" ->
                 IF "price" \in df.cols
                 THEN Issue("products have zero or negative prices",
                            Count(df, LAMBDA r : r.price # NULL /\ r.price <= 0))
                 ELSE <<>>
            [] table_name = "customers" ->
                 IF "email" \in df.cols
                 THEN Issue("customers have invalid email formats",
                            Count(df, LAMBDA r : ~(r.email # NullStr /\ "@" \in Range(r.email))))
                 ELSE <<>>
            [] OTHER -> <<>>
    IN  [passed |-> Len(issues) = 0, details |-> issues]

Result(check_type, r) == [check_type |-> check_type, passed |-> r.passed, details |-> r.details]

\* validate_data raises: the future-date check of the sales table parses the
\* dates with pd.to_datetime
validate_raises(df, table_name) == table_name = "sales" /\ Unparseable(df)

\* validate_data as it would be if a failed check ended the validation
validate_data_short_circuit(df, table_name) ==
    IF table_name \in DOMAIN Rules
    THEN LET rules == Rules[table_name]
             all == << Result("required_columns", check_required_columns(df, rules.required_columns)),
                       Result("not_null_columns", check_not_null(df, rules.not_null_columns)),
                       Result("numeric_ranges", check_numeric_ranges(df, rules.numeric_ranges)),
                       Result("unique_columns", check_unique_columns(df, rules.unique_columns)),
                       Result("data_types", check_data_types(df, table_name)),
                       Result("custom_checks", run_custom_checks(df, table_name)) >>
             failed == {i \in DOMAIN all : ~all[i].passed}
         IN  IF failed = {} THEN all
             ELSE SubSeq(all, 1, CHOOSE i \in failed : \A j \in failed : i <= j)
    ELSE <<>>

\* validate_data: the results in the order the checks run, none for a table
\* name without rule set (when no check raises)
validate_data(df, table_name) ==
    IF table_name \in DOMAIN Rules
    THEN LET rules == Rules[table_name]
         IN  << Result("required_columns", check_required_columns(df, rules.required_columns)),
                Result("not_null_columns", check_not_null(df, rules.not_null_columns)),
                Result("numeric_ranges", check_numeric_ranges(df, rules.numeric_ranges)),
                Result("unique_columns", check_unique_columns(df, rules.unique_columns)),
                Result("data_types", check_data_types(df, table_name)),
                Result("custom_checks", run_custom_checks(df, table_name)) >>
    ELSE <<>>

\* --------------------------------------------------------------- transform
LogEntry(rid, table_name, result) ==
    [run_id |-> rid, table_name |-> table_name, check_type |-> result.check_type,
     check_result |-> result.passed, details |-> result.details]

\* _log_quality_results as it would be if only the failed results were written
log_quality_results_failures_only(logs, results, table_name, rid) ==
    logs \o [i \in DOMAIN SelectSeq(results, LAMBDA r : ~r.passed) |->
                LogEntry(rid, table_name, SelectSeq(results, LAMBDA r : ~r.passed)[i])]

\* _log_quality_results: one row per result, in the order of the results,
\* carrying self.run_id; committed by its own connection
log_quality_results(logs, results, table_name, rid) ==
    logs \o [i \in DOMAIN results |-> LogEntry(rid, table_name, results[i])]

RECURSIVE TransformFrom(_, _, _, _, _)
TransformFrom(i, acc, logs, extracted, rid) ==
    IF i > Len(extracted.order) THEN [raised |-> FALSE, error |-> "", value |-> acc, logs |-> logs]
    ELSE LET source_name == extracted.order[i]
             t == TransformTable(source_name, extracted.tables[source_name])
         IN  IF t.raised
             THEN [raised |-> TRUE, error |-> t.error, value |-> EmptyDict, logs |-> logs]
             ELSE TransformFrom(i + 1, Put(acc, source_name, t.table),
                                log_quality_results(logs,
                                    validate_data(t.table, source_name), source_name, rid),
                                extracted, rid)

\* transform(): each extracted table transformed, validated and its results
\* logged, in the order of extraction; the logs written before an exception stay
TransformAll(extracted, logs, rid) == TransformFrom(1, EmptyDict, logs, extracted, rid)

\* -------------------------------------------------------------------- load
HasKey(table_name) == table_name \in SchemaTables

MaxKey(rows, k) ==
    LET keys == {rows[i][k] : i \in DOMAIN rows}
    IN  IF keys = {} THEN 0 ELSE CHOOSE m \in keys : \A x \in keys : x <= m

\* a row placed by its key (rowid order), after any row with a smaller key
InsertByKey(rows, k, r) ==
    LET before == SelectSeq(rows, LAMBDA x : x[k] < r[k])
        after == SelectSeq(rows, LAMBDA x : x[k] > r[k])
    IN  before \o <<r>> \o after

\* a NULL INTEGER PRIMARY KEY is given the next rowid
WithKey(rows, k, r) ==
    IF r[k] = NULL THEN [r EXCEPT ![k] = MaxKey(rows, k) + 1] ELSE r

\* the selection of the destination's columns: KeyError when one is missing
Project(df, table_name) ==
    IF table_name \in SchemaTables
    THEN IF EntityCols(table_name) \subseteq df.cols
         THEN [raised |-> FALSE, error |-> "",
               rows |-> [i \in DOMAIN df.rows |-> Restrict(df.rows[i], EntityCols(table_name))]]
         ELSE [raised |-> TRUE, error |-> "not in index", rows |-> <<>>]
    ELSE [raised |-> FALSE, error |-> "", rows |-> df.rows]

RECURSIVE InsertOrReplace(_, _, _)
\* INSERT OR REPLACE ... SELECT: a row whose key exists replaces that row
InsertOrReplace(rows, table_name, new) ==
    IF new = <<>> THEN rows
    ELSE IF HasKey(table_name)
         THEN LET k == KeyCol(table_name)
                  r == WithKey(rows, k, Head(new))
              IN  InsertOrReplace(InsertByKey(rows, k, r), table_name, Tail(new))
         ELSE InsertOrReplace(Append(rows, Head(new)), table_name, Tail(new))

RECURSIVE InsertAll(_, _, _)
\* INSERT of every row: IntegrityError when a key exists already
InsertAll(rows, table_name, new) ==
    IF new = <<>> THEN [raised |-> FALSE, rows |-> rows]
    ELSE IF HasKey(table_name)
         THEN LET k == KeyCol(table_name)
                  r == WithKey(rows, k, Head(new))
              IN  IF \E i \in DOMAIN rows : rows[i][k] = r[k]
                  THEN [raised |-> TRUE, rows |-> rows]
                  ELSE InsertAll(InsertByKey(rows, k, r), table_name, Tail(new))
         ELSE InsertAll(Append(rows, Head(new)), table_name, Tail(new))

\* the store as one connection sees it: destination tables, the tables that
\* exist, staging tables
Db(tbls, exs, stg) == [tables |-> tbls, exists |-> exs, staging |-> stg]

\* to_sql on the staging table as it would be with if_exists='append'
ToSqlReplace_append(db, table_name, rows) ==
    [db EXCEPT !.staging[table_name] = db.staging[table_name] \o rows]

\* df.to_sql('stg_<table>', if_exists='replace'): the staging table dropped,
\* created again and filled; pandas commits the connection when it is done
ToSqlReplace(db, table_name, rows) ==
    [db EXCEPT !.staging[table_name] = rows]

\* _merge_data: staging rows upserted into the destination table, not yet
\* committed; merge_key is not used by the statement
merge_data(db, table_name, merge_key) ==
    IF table_name \in db.exists
    THEN [raised |-> FALSE, error |-> "",
          db |-> [db EXCEPT !.tables[table_name] =
                     InsertOrReplace(db.tables[table_name], table_name, db.staging[table_name])]]
    ELSE [raised |-> TRUE, error |-> "no such table", db |-> db]

\* df.to_sql(table, if_exists='append'): the table created when missing, the
\* rows inserted and committed, or rolled back when an insert fails
ToSqlAppend(db, table_name, rows) ==
    LET r == InsertAll(db.tables[table_name], table_name, rows)
    IN  IF r.raised THEN [raised |-> TRUE, error |-> "UNIQUE constraint failed", db |-> db]
        ELSE [raised |-> FALSE, error |-> "",
              db |-> [db EXCEPT !.tables[table_name] = r.rows,
                                !.exists = db.exists \cup {table_name}]]

RECURSIVE LoadFrom(_, _, _, _, _, _)
\* the loop of load() from destination i on: committed is what the store
\* holds, cur what the connection of load() sees
LoadFrom(i, committed, cur, total_records, cfg, transformed) ==
    IF i > Len(cfg.destinations)
    THEN [raised |-> FALSE, error |-> "", db |-> cur, total |-> total_records]
    ELSE LET destination == cfg.destinations[i]
             source_name == destination.source
             table_name == destination.table
         IN  IF source_name \notin DOMAIN transformed.tables
             THEN LoadFrom(i + 1, committed, cur, total_records, cfg, transformed)
             ELSE LET df == Project(transformed.tables[source_name], table_name)
                      staged == ToSqlReplace(cur, table_name, df.rows)
                      merged == merge_data(staged, table_name, destination.merge_key)
                      appended == ToSqlAppend(staged, table_name, df.rows)
                  IN  IF df.raised
                      THEN [raised |-> TRUE, error |-> df.error, db |-> committed, total |-> 0]
                      ELSE IF destination.merge_key # NoKey
                      THEN IF merged.raised
                           THEN [raised |-> TRUE, error |-> merged.error, db |-> staged, total |-> 0]
                           ELSE LoadFrom(i + 1, staged, merged.db,
                                         total_records + Len(df.rows), cfg, transformed)
                      ELSE IF appended.raised
                           THEN [raised |-> TRUE, error |-> appended.error, db |-> staged, total |-> 0]
                           ELSE LoadFrom(i + 1, appended.db, appended.db,
                                         total_records + Len(df.rows), cfg, transformed)

\* load() as it would be with the line total_records += len(df) left out
Load_uncounted(cfg, transformed, db) ==
    [LoadFrom(1, db, db, 0, cfg, transformed) EXCEPT !.total = 0]

\* load() as it would be with total_records = len(df) for total_records += len(df)
Load_last_count(cfg, transformed, db) ==
    LET r == LoadFrom(1, db, db, 0, cfg, transformed)
        loaded == {i \in DOMAIN cfg.destinations :
                     cfg.destinations[i].source \in DOMAIN transformed.tables}
        last == CHOOSE i \in loaded : \A j \in loaded : j <= i
    IN  IF r.raised \/ loaded = {} THEN r
        ELSE [r EXCEPT !.total = Len(transformed.tables[cfg.destinations[last].source].rows)]

\* load(): on success everything is committed; on an exception the
\* connection rolls back to what was committed last
Load(cfg, transformed, db) == LoadFrom(1, db, db, 0, cfg, transformed)

\* ------------------------------------------------------------- run ledger
\* _start_pipeline_run: the row inserted; its rowid becomes self.run_id
start_pipeline_run(runs, cfg) ==
    Append(runs, [pipeline_name |-> cfg.pipeline_name, status |-> "STARTED",
                  start_time |-> "now", end_time |-> NullText,
                  records_processed |-> NULL, error_message |-> NullText])

\* end_pipeline_run as it would be with the error text left out of the UPDATE
end_pipeline_run_no_message(runs, rid, status, n, error_message) ==
    [i \in DOMAIN runs |->
        IF i = rid
        THEN [runs[i] EXCEPT !.status = status, !.end_time = "now", !.records_processed = n]
        ELSE runs[i]]

\* end_pipeline_run as it would be with the WHERE clause left out
end_pipeline_run_no_where(runs, rid, status, n, error_message) ==
    [i \in DOMAIN runs |->
        [runs[i] EXCEPT !.status = status, !.end_time = "now",
                        !.records_processed = n, !.error_message = error_message]]

\* _end_pipeline_run: UPDATE pipeline_runs ... WHERE run_id = self.run_id
end_pipeline_run(runs, rid, status, n, error_message) ==
    [i \in DOMAIN runs |->
        IF i = rid
        THEN [runs[i] EXCEPT !.status = status, !.end_time = "now",
                             !.records_processed = n, !.error_message = error_message]
        ELSE runs[i]]

\* ----------------------------------------------------------------- actions
Store == Db(tables, exists, staging)
SetStore(db) ==
    /\ tables' = db.tables
    /\ exists' = db.exists
    /\ staging' = db.staging

\* line 194 as it would be if run() went on after an exception of extract()
RunExtract_continue ==
    /\ pc = "extract"
    /\ LET r == ExtractSources(config, files, tables, exists)
       IN  /\ data' = r.value
           /\ held' = "extracted"
           /\ pc' = "transform"
           /\ error' = r.error
    /\ UNCHANGED <<config_file, call, config, files, tables0, tables, exists, staging, pipeline_runs,
                   data_quality_logs, run_id, records_processed, ret, ncalls>>

\* line 197 as it would be if a failed quality result raised (fail_on_error)
RunTransform_fail_on_error ==
    /\ pc = "transform"
    /\ LET r == TransformAll(data, data_quality_logs, run_id)
           failed == \E i \in DOMAIN r.logs :
                        i > Len(data_quality_logs) /\ ~r.logs[i].check_result
       IN  /\ data_quality_logs' = r.logs
           /\ IF r.raised \/ failed
              THEN /\ error' = IF r.raised THEN r.error ELSE "Data quality check failed"
                   /\ pc' = "except"
                   /\ UNCHANGED <<held, data>>
              ELSE /\ data' = r.value
                   /\ held' = "transformed"
                   /\ pc' = "load"
                   /\ UNCHANGED error
    /\ UNCHANGED <<config_file, call, config, files, tables0, tables, exists, staging, pipeline_runs,
                   run_id, records_processed, ret, ncalls>>

\* line 200 as it would be if the quality logs of the run were written through
\* the connection of load() and rolled back with it
RunLoad_shared_connection ==
    /\ pc = "load"
    /\ LET r == Load(config, data, Store)
       IN  /\ SetStore(r.db)
           /\ IF r.raised
              THEN /\ error' = r.error
                   /\ pc' = "except"
                   /\ data_quality_logs' =
                         SelectSeq(data_quality_logs, LAMBDA e : e.run_id # run_id)
                   /\ UNCHANGED records_processed
              ELSE /\ records_processed' = r.total
                   /\ pc' = "complete"
                   /\ UNCHANGED <<error, data_quality_logs>>
    /\ UNCHANGED <<config_file, call, config, files, tables0, pipeline_runs, run_id,
                   held, data, ret, ncalls>>

\* run(), line 191: the run record opened
RunStart ==
    /\ pc = "idle"
    /\ ncalls < MaxCalls
    /\ pipeline_runs' = start_pipeline_run(pipeline_runs, config)
    /\ run_id' = Len(pipeline_runs')
    /\ pc' = "extract"
    /\ held' = "none"
    /\ data' = EmptyDict
    /\ ret' = "none"
    /\ ncalls' = ncalls + 1
    /\ UNCHANGED <<config_file, call, config, files, tables0, tables, exists, staging, data_quality_logs,
                   records_processed, error>>

\* run(), line 194: extracted_data = self.extract()
RunExtract ==
    /\ pc = "extract"
    /\ LET r == ExtractSources(config, files, tables, exists)
       IN  IF r.raised
           THEN /\ error' = r.error
                /\ pc' = "except"
                /\ UNCHANGED <<held, data>>
           ELSE /\ data' = r.value
                /\ held' = "extracted"
                /\ pc' = "transform"
                /\ UNCHANGED error
    /\ UNCHANGED <<config_file, call, config, files, tables0, tables, exists, staging, pipeline_runs,
                   data_quality_logs, run_id, records_processed, ret, ncalls>>

\* run(), line 197: transformed_data = self.transform(extracted_data)
RunTransform ==
    /\ pc = "transform"
    /\ LET r == TransformAll(data, data_quality_logs, run_id)
       IN  /\ data_quality_logs' = r.logs
           /\ IF r.raised
              THEN /\ error' = r.error
                   /\ pc' = "except"
                   /\ UNCHANGED <<held, data>>
              ELSE /\ data' = r.value
                   /\ held' = "transformed"
                   /\ pc' = "load"
                   /\ UNCHANGED error
    /\ UNCHANGED <<config_file, call, config, files, tables0, tables, exists, staging, pipeline_runs,
                   run_id, records_processed, ret, ncalls>>

\* run(), line 200: records_processed = self.load(transformed_data)
RunLoad ==
    /\ pc = "load"
    /\ LET r == Load(config, data, Store)
       IN  /\ SetStore(r.db)
           /\ IF r.raised
              THEN /\ error' = r.error
                   /\ pc' = "except"
                   /\ UNCHANGED records_processed
              ELSE /\ records_processed' = r.total
                   /\ pc' = "complete"
                   /\ UNCHANGED error
    /\ UNCHANGED <<config_file, call, config, files, tables0, pipeline_runs, data_quality_logs, run_id,
                   held, data, ret, ncalls>>

\* run(), lines 202-204: the run finalized as COMPLETED; True returned
RunComplete ==
    /\ pc = "complete"
    /\ pipeline_runs' = end_pipeline_run(pipeline_runs, run_id, "COMPLETED",
                                         records_processed, NullText)
    /\ ret' = "True"
    /\ pc' = "idle"
    /\ held' = "none"
    /\ data' = EmptyDict
    /\ UNCHANGED <<config_file, call, config, files, tables0, tables, exists, staging, data_quality_logs,
                   run_id, records_processed, error, ncalls>>

\* run(), lines 206-209: the handler finalizes the run as FAILED; False returned
RunExcept ==
    /\ pc = "except"
    /\ pipeline_runs' = end_pipeline_run(pipeline_runs, run_id, "FAILED", 0, error)
    /\ ret' = "False"
    /\ pc' = "idle"
    /\ held' = "none"
    /\ data' = EmptyDict
    /\ UNCHANGED <<config_file, call, config, files, tables0, tables, exists, staging, data_quality_logs,
                   run_id, records_processed, error, ncalls>>

\* extract() called by the caller itself
CallExtract ==
    /\ pc = "idle"
    /\ ncalls < MaxCalls
    /\ LET r == ExtractSources(config, files, tables, exists)
       IN  IF r.raised
           THEN /\ error' = r.error
                /\ ret' = "raised"
                /\ held' = "none"
                /\ data' = EmptyDict
           ELSE /\ data' = r.value
                /\ held' = "extracted"
                /\ ret' = "extracted"
                /\ UNCHANGED error
    /\ UNCHANGED <<config_file, call, config, files, tables0, tables, exists, staging, pipeline_runs,
                   data_quality_logs, run_id, pc, records_processed, ncalls>>

\* transform(extracted_data) called by the caller itself
CallTransform ==
    /\ pc = "idle"
    /\ held = "extracted"
    /\ ncalls < MaxCalls
    /\ LET r == TransformAll(data, data_quality_logs, run_id)
       IN  /\ data_quality_logs' = r.logs
           /\ IF r.raised
              THEN /\ error' = r.error
                   /\ ret' = "raised"
                   /\ UNCHANGED <<held, data>>
              ELSE /\ data' = r.value
                   /\ held' = "transformed"
                   /\ ret' = "transformed"
                   /\ UNCHANGED error
    /\ ncalls' = ncalls + 1
    /\ UNCHANGED <<config_file, call, config, files, tables0, tables, exists, staging, pipeline_runs,
                   run_id, pc, records_processed>>

\* load(transformed_data) called by the caller itself
CallLoad ==
    /\ pc = "idle"
    /\ held = "transformed"
    /\ ncalls < MaxCalls
    /\ LET r == Load(config, data, Store)
       IN  /\ SetStore(r.db)
           /\ IF r.raised
              THEN /\ error' = r.error
                   /\ ret' = "raised"
                   /\ UNCHANGED records_processed
              ELSE /\ records_processed' = r.total
                   /\ ret' = "loaded"
                   /\ UNCHANGED error
    /\ ncalls' = ncalls + 1
    /\ UNCHANGED <<config_file, call, config, files, tables0, pipeline_runs, data_quality_logs, run_id, pc, held, data>>

Next ==
    \/ RunStart
    \/ RunExtract
    \/ RunTransform
    \/ RunLoad
    \/ RunComplete
    \/ RunExcept
    \/ CallExtract
    \/ CallTransform
    \/ CallLoad

Spec == Init /\ [][Next]_vars

\* ================================================================== claims
LoadStep == RunLoad \/ CallLoad
RunRecord == pipeline_runs[run_id]

\* C1: when extract, transform or load raises inside run(), the handler is
\* entered; the call adds exactly one run record (the one run_id names), and
\* the handler leaves that record FAILED with records_processed = 0 and the
\* non-empty error text, and run() returns False.
C1_FailureRecorded ==
    [][ /\ (pc = "extract" /\ ExtractSources(config, files, tables, exists).raised
              => pc' = "except")
        /\ (pc = "transform" /\ TransformAll(data, data_quality_logs, run_id).raised
              => pc' = "except")
        /\ (pc = "load" /\ Load(config, data, Store).raised => pc' = "except")
        /\ (pc = "idle" /\ pc' # "idle"
              => Len(pipeline_runs') = Len(pipeline_runs) + 1 /\ run_id' = Len(pipeline_runs'))
        /\ (pc # "idle"
              => Len(pipeline_runs') = Len(pipeline_runs) /\ run_id' = run_id
                 /\ run_id = Len(pipeline_runs))
        /\ (pc = "except"
              => /\ pc' = "idle"
                 /\ ret' = "False"
                 /\ pipeline_runs'[run_id].status = "FAILED"
                 /\ pipeline_runs'[run_id].records_processed = 0
                 /\ pipeline_runs'[run_id].error_message = error
                 /\ error \notin {"", NullText})
      ]_vars

\* a run that failed in load() has returned False
C1_Witness ==
    /\ pc = "idle"
    /\ ret = "False"
    /\ error = "UNIQUE constraint failed"
    /\ RunRecord.status = "FAILED"

OneSalesSourceAndDestination ==
    /\ Len(config.sources) = 1
    /\ config.sources[1].name = "sales"
    /\ Len(config.destinations) = 1
    /\ config.destinations[1].source = "sales"
    /\ config.destinations[1].table = "sales"

\* the rows the sales source holds when they are valid: the source can be
\* read, has every column, and its sale_ids are present and distinct
ValidSalesRows(rows) ==
    \A i \in DOMAIN rows :
        /\ rows[i].sale_id # NULL
        /\ \A j \in DOMAIN rows : rows[j].sale_id = rows[i].sale_id => j = i
SalesSource == ExtractSources(config, files, tables0, SchemaTables)
ValidSalesSource ==
    /\ ~SalesSource.raised
    /\ SalesSource.value.tables["sales"].cols = SalesCols
    /\ ValidSalesRows(SalesSource.value.tables["sales"].rows)

\* C3: with one sales source of N valid rows and one sales destination that
\* starts empty, the first run() returns True, leaves exactly one run record,
\* COMPLETED with records_processed = N, and N rows in the sales table.
C3_ValidRunCompletes ==
    ( /\ OneSalesSourceAndDestination
      /\ ValidSalesSource
      /\ tables0["sales"] = <<>>
      /\ pc = "idle"
      /\ ncalls = 1
      /\ Len(pipeline_runs) = 1
      /\ ret \in {"True", "False"} )
    => LET N == Len(SalesSource.value.tables["sales"].rows)
       IN  /\ ret = "True"
           /\ pipeline_runs[1].status = "COMPLETED"
           /\ pipeline_runs[1].records_processed = N
           /\ Len(tables["sales"]) = N

\* the run of the test configuration over two valid rows has completed
C3_Witness ==
    /\ OneSalesSourceAndDestination
    /\ ValidSalesSource
    /\ tables0["sales"] = <<>>
    /\ pc = "idle"
    /\ ret = "True"
    /\ Len(pipeline_runs) = 1
    /\ pipeline_runs[1].records_processed = 2
    /\ Len(tables["sales"]) = 2

\* C4: when load() raises, every destination table is as it was before the
\* call, and the exception reaches the caller.
C4_LoadAllOrNothing ==
    [][ (LoadStep /\ Load(config, data, Store).raised)
          => /\ tables' = tables
             /\ exists' = exists
             /\ (pc' = "except" \/ ret' = "raised")
      ]_vars

MergeDestinations == {i \in DOMAIN config.destinations : config.destinations[i].merge_key # NoKey}
KeysDistinct(rows, k) ==
    \A i, j \in DOMAIN rows : rows[i][k] = rows[j][k] => i = j

\* C5: for a destination with a merge_key, load() called again with the same
\* data leaves the destination table as the first call left it, and no two
\* rows of that table share a value of the merge_key.
C5_MergeIdempotent ==
    /\ [](\A i \in MergeDestinations :
            KeysDistinct(tables[config.destinations[i].table], config.destinations[i].merge_key))
    /\ [][ (CallLoad /\ ret = "loaded")
             => \A i \in MergeDestinations :
                   tables'[config.destinations[i].table] = tables[config.destinations[i].table]
         ]_vars


\* the entries of the quality log written for the current run with a failed result
FailedResults == {i \in DOMAIN data_quality_logs :
                    data_quality_logs[i].run_id = run_id /\ ~data_quality_logs[i].check_result}
FirstRunOnEmptyTables ==
    /\ ncalls = 1
    /\ Len(pipeline_runs) = 1
    /\ \A t \in TableNames : tables0[t] = <<>>
TransformRaises(extracted) ==
    \E n \in Range(extracted.order) : TransformTable(n, extracted.tables[n]).raised
TransformStep == pc = "transform" \/ CallTransform

\* C6 as stated: a failed quality result never interrupts the pipeline; a first
\* run over empty destination tables that reaches load with a failed result
\* logged goes on to complete, never to the handler that marks the run FAILED.
C6_DefectNeverFailsRun ==
    [][ (pc = "load" /\ FirstRunOnEmptyTables /\ FailedResults # {})
          => pc' = "complete"
      ]_vars

\* C6 as the code has it: the outcome of the checks has no part in the control
\* flow. A transform step raises only when the transformation of a table
\* raises; otherwise, whatever the results, every result is logged, every
\* extracted table is returned transformed and run() goes on to load. The run
\* reaches the handler from load exactly when load() raises, which the defect
\* that failed a check (a missing column, a duplicate or missing key) can cause.
C6_ResultsNeverInterrupt ==
    [][ /\ (TransformStep /\ ~TransformRaises(data))
            => /\ (pc = "transform" => pc' = "load")
               /\ held' = "transformed"
               /\ data'.order = data.order
               /\ \A n \in Range(data.order) :
                    LET t == TransformTable(n, data.tables[n]).table
                        results == validate_data(t, n)
                    IN  /\ data'.tables[n] = t
                        /\ \A k \in DOMAIN results :
                             \E i \in DOMAIN data_quality_logs' :
                                /\ i > Len(data_quality_logs)
                                /\ data_quality_logs'[i].run_id = run_id
                                /\ data_quality_logs'[i].table_name = n
                                /\ data_quality_logs'[i].check_type = results[k].check_type
                                /\ data_quality_logs'[i].check_result = results[k].passed
        /\ (TransformStep /\ TransformRaises(data))
            => (pc = "transform" => pc' = "except") /\ held' = held
        /\ (pc = "load")
            => (pc' = "except" <=> Load(config, data, Store).raised)
      ]_vars

\* a run has completed although a check of it failed
C6_Witness ==
    /\ pc = "idle"
    /\ ret = "True"
    /\ RunRecord.status = "COMPLETED"
    /\ FailedResults # {}

\* C7: every entry of the quality log carries the run_id of a record of
\* pipeline_runs, whatever entry points were called.
C7_LogsReferenceRuns ==
    \A i \in DOMAIN data_quality_logs : data_quality_logs[i].run_id \in DOMAIN pipeline_runs

\* the entries a step appends to the quality log
NewEntries == SubSeq(data_quality_logs', Len(data_quality_logs) + 1, Len(data_quality_logs'))
AppendOnly ==
    /\ Len(data_quality_logs') >= Len(data_quality_logs)
    /\ SubSeq(data_quality_logs', 1, Len(data_quality_logs)) = data_quality_logs
EntriesOf(n, ct) ==
    {i \in DOMAIN NewEntries : NewEntries[i].table_name = n /\ NewEntries[i].check_type = ct}
\* one entry for each of the six check types, none else, for table n
SixEntries(n) ==
    /\ \A ct \in Range(CheckTypes) : Cardinality(EntriesOf(n, ct)) = 1
    /\ Cardinality({i \in DOMAIN NewEntries : NewEntries[i].table_name = n}) = 6
NoEntries(n) == \A i \in DOMAIN NewEntries : NewEntries[i].table_name # n
\* the tables transform() gets to validate: those before the first table
\* whose transformation raises
Validated(extracted) ==
    {extracted.order[i] : i \in {j \in DOMAIN extracted.order :
        \A k \in 1..j : ~TransformTable(extracted.order[k],
                                        extracted.tables[extracted.order[k]]).raised}}

\* C8 as stated: in a run, the transform step appends six entries, one for each
\* check type, with the run_id of the run, for each extracted table that has a
\* rule set, none for a table without; the log only grows.
C8_SixEntriesPerExtractedTable ==
    [][ /\ AppendOnly
        /\ pc = "transform"
            => /\ \A i \in DOMAIN NewEntries : NewEntries[i].run_id = run_id
               /\ \A n \in Range(data.order) :
                    IF n \in DOMAIN Rules THEN SixEntries(n) ELSE NoEntries(n)
      ]_vars

\* C8 as the code has it: the six entries are appended for each table with a
\* rule set that transform() transformed without raising; the table whose
\* transformation raises and the tables after it get none. Entries carry the
\* run_id of the run and the name of the table; a table without rule set gets
\* none; no step changes or removes an entry, and only a transform step adds.
C8_SixEntriesPerValidatedTable ==
    [][ /\ AppendOnly
        /\ pc = "transform"
            => /\ \A i \in DOMAIN NewEntries : NewEntries[i].run_id = run_id
               /\ \A n \in Range(data.order) :
                    IF n \in DOMAIN Rules /\ n \in Validated(data)
                    THEN SixEntries(n) ELSE NoEntries(n)
        /\ ~TransformStep => data_quality_logs' = data_quality_logs
      ]_vars

\* the transform step of a run over a table with rule set and one without has
\* logged the six results of the first
C8_Witness ==
    /\ pc = "load"
    /\ data.order = <<"customers", "returns">>
    /\ Len(data_quality_logs) = 6
    /\ \A i \in DOMAIN data_quality_logs :
         data_quality_logs[i].run_id = run_id /\ data_quality_logs[i].table_name = "customers"

LoadErrors == {"not in index", "no such table", "UNIQUE constraint failed"}
StoreUnwritten == tables' = tables /\ exists' = exists /\ staging' = staging

\* C9: when load() raises in a run, after the transform of that run has
\* returned, the rollback of load() and the handler of run() leave every
\* entry of the quality log in place and the record of the run present: the
\* log and the ledger are the same after the failing load step, and the
\* handler changes nothing but the record of the run, which it marks FAILED.
C9_EarlierWritesSurvive ==
    [][ /\ (pc = "load" /\ Load(config, data, Store).raised)
            => /\ pc' = "except"
               /\ data_quality_logs' = data_quality_logs
               /\ pipeline_runs' = pipeline_runs
        /\ (pc = "except")
            => /\ data_quality_logs' = data_quality_logs
               /\ DOMAIN pipeline_runs' = DOMAIN pipeline_runs
               /\ run_id \in DOMAIN pipeline_runs'
               /\ pipeline_runs'[run_id].status = "FAILED"
               /\ \A i \in DOMAIN pipeline_runs : i # run_id => pipeline_runs'[i] = pipeline_runs[i]
      ]_vars

\* a first run has returned False after load() raised, and the six results
\* of its sales table are in the log
C9_Witness ==
    /\ pc = "idle"
    /\ ret = "False"
    /\ ncalls = 1
    /\ error \in LoadErrors
    /\ RunRecord.status = "FAILED"
    /\ Len(data_quality_logs) = 6
    /\ \A i \in DOMAIN data_quality_logs : data_quality_logs[i].run_id = run_id

\* C10: run() goes through open-run, extract, transform, load in that order,
\* each stage over all its sources, tables or destinations, and a stage that
\* raises hands over to the handler, which writes the run record only: the
\* extract step writes no log entry and no table, the transform step writes no
\* staging or destination table, and after a raise no later stage is executed.
C10_StagesInOrder ==
    [][ /\ (pc = "idle" => pc' \in {"idle", "extract"})
        /\ (pc = "extract")
            => LET r == ExtractSources(config, files, tables, exists)
               IN  /\ pc' = IF r.raised THEN "except" ELSE "transform"
                   /\ ~r.raised =>
                        data'.order = [i \in DOMAIN config.sources |-> config.sources[i].name]
                   /\ r.raised => data' = data
                   /\ data_quality_logs' = data_quality_logs
                   /\ StoreUnwritten
        /\ (pc = "transform")
            => /\ pc' = IF TransformRaises(data) THEN "except" ELSE "load"
               /\ ~TransformRaises(data) => data'.order = data.order
               /\ StoreUnwritten
        /\ (pc = "load")
            => /\ pc' \in {"complete", "except"}
               /\ data_quality_logs' = data_quality_logs
               /\ pc' = "complete" =>
                    \A i \in DOMAIN config.destinations :
                       LET d == config.destinations[i]
                       IN  d.source \in DOMAIN data.tables =>
                              staging'[d.table] = Project(data.tables[d.source], d.table).rows
        /\ (pc \in {"complete", "except"})
            => /\ pc' = "idle"
               /\ data_quality_logs' = data_quality_logs
               /\ StoreUnwritten
      ]_vars

\* a first run whose extract raised has returned with nothing written but
\* the run record
C10_Witness ==
    /\ pc = "idle"
    /\ ret = "False"
    /\ ncalls = 1
    /\ error \in {"No such file or directory", "Unsupported source type"}
    /\ RunRecord.status = "FAILED"
    /\ data_quality_logs = <<>>
    /\ tables = tables0
    /\ staging = [t \in TableNames |-> <<>>]

\* the destinations of the configuration that write table t from a source held
StagedFor(t) ==
    {i \in DOMAIN config.destinations :
        /\ config.destinations[i].table = t
        /\ config.destinations[i].source \in DOMAIN data.tables}
Projected(i) ==
    Project(data.tables[config.destinations[i].source], config.destinations[i].table)

\* C11: a load step leaves in each staging table either what it held (no
\* destination of the call staged that table) or exactly the rows projected in
\* this call for a destination of that table, never those rows added to
\* earlier content; after a load that returns, every table with a destination
\* staged holds in staging exactly the projection of this call, and with one
\* destination the destination table received exactly those rows.
C11_StagingReplaced ==
    [][ LoadStep =>
          /\ \A t \in TableNames :
                \/ staging'[t] = staging[t] /\ (StagedFor(t) = {} \/ Load(config, data, Store).raised)
                \/ \E i \in StagedFor(t) : ~Projected(i).raised /\ staging'[t] = Projected(i).rows
          /\ ~Load(config, data, Store).raised =>
                /\ \A t \in TableNames : \A i \in StagedFor(t) : staging'[t] = Projected(i).rows
                /\ (Len(config.destinations) = 1 /\ StagedFor(config.destinations[1].table) = {1}) =>
                      LET d == config.destinations[1]
                      IN  tables'[d.table] =
                            IF d.merge_key # NoKey
                            THEN InsertOrReplace(tables[d.table], d.table, staging'[d.table])
                            ELSE InsertAll(tables[d.table], d.table, staging'[d.table]).rows
      ]_vars

\* load() has returned a second time for the same transformed sales row, and
\* the staging table holds that one row
C11_Witness ==
    /\ ncalls = 3
    /\ ret = "loaded"
    /\ pipeline_runs = <<>>
    /\ Len(data_quality_logs) = 6
    /\ "sales" \in DOMAIN data.tables
    /\ Len(data.tables["sales"].rows) = 1
    /\ staging["sales"] = Project(data.tables["sales"], "sales").rows

\* ====================================== transformer and quality manager alone
\* rows of a table passed to one function
MaxFnRows == 3

\* --------------------------------------------------------- customer segments
\* An email is a sequence of pieces: names, "@", domains and " " (white space).
RECURSIVE LStrip(_)
LStrip(e) == IF e # <<>> /\ Head(e) = " " THEN LStrip(Tail(e)) ELSE e
RECURSIVE RStrip(_)
RStrip(e) == IF e # <<>> /\ e[Len(e)] = " " THEN RStrip(SubSeq(e, 1, Len(e) - 1)) ELSE e
\* df['email'].str.strip().str.lower(); a missing email stays missing
normalize_email(e) == IF e = NullStr THEN NullStr ELSE Lower(RStrip(LStrip(e)))

\* df['email'].str.split('@').str[1]: the part after the first "@" up to the
\* next one; missing (NaN) when the email is missing or holds no "@"
email_domain(e) ==
    LET ats == {i \in DOMAIN e : e[i] = "@"}
        first == CHOOSE i \in ats : \A j \in ats : i <= j
        later == {i \in ats : i > first}
        stop == IF later = {} THEN Len(e) + 1
                ELSE CHOOSE i \in later : \A j \in later : i <= j
    IN  IF e = NullStr \/ ats = {} THEN NullStr
        ELSE SubSeq(e, first + 1, stop - 1)

corporate_domains == {<<"company.com">>, <<"business.com">>, <<"corp.com">>}
personal_domains == {<<"gmail.com">>, <<"yahoo.com">>, <<"hotmail.com">>, <<"outlook.com">>}

\* _categorize_customer: `not email_domain` holds for the empty text (and
\* None), not for the missing value NaN that .str[1] yields
categorize_customer(d) ==
    IF d = <<>> THEN "Unknown"
    ELSE IF d \in corporate_domains THEN "Corporate"
    ELSE IF d \in personal_domains THEN "Personal"
    ELSE "Other"

\* the columns email, email_domain and customer_segment of the table
\* transform_customer_data returns, row by row
customer_segments(df) ==
    [i \in DOMAIN df.rows |->
        LET e == normalize_email(df.rows[i].email)
        IN  [email |-> e, email_domain |-> email_domain(e),
             customer_segment |-> categorize_customer(email_domain(e))]]

\* --------------------------------------------------------------- price tiers
\* no tier (NaN of the categorical column)
NoTier == "<NA>"
\* pd.cut as it would be with right=False: bins closed on the left
price_tier_left_closed(price) ==
    IF price = NULL \/ price < 0 THEN NoTier
    ELSE IF price < 50 THEN "Budget"
    ELSE IF price < 200 THEN "Standard"
    ELSE IF price < 500 THEN "Premium"
    ELSE "Luxury"

\* pd.cut(price, bins=[0, 50, 200, 500, inf], labels=[...]): bins (a, b]
price_tier(price) ==
    IF price = NULL \/ price <= 0 THEN NoTier
    ELSE IF price <= 50 THEN "Budget"
    ELSE IF price <= 200 THEN "Standard"
    ELSE IF price <= 500 THEN "Premium"
    ELSE "Luxury"

\* the column price_tier of the table transform_product_data returns
price_tiers(df) == [i \in DOMAIN df.rows |-> price_tier(df.rows[i].price)]

\* ---------------------------------------------------------------- fact table
RECURSIVE LeftJoin(_, _, _, _, _)
\* left.merge(right[[key] + cols], on=key, how='left'): for each row of left,
\* in order, one row for each row of right with the same key (missing keys
\* match each other), or one row with the columns missing when none has it
LeftJoin(left, right, key, cols, missing) ==
    IF left = <<>> THEN <<>>
    ELSE LET l == Head(left)
             m == SelectSeq(right, LAMBDA r : r[key] = l[key])
         IN  (IF m = <<>> THEN <<l @@ missing>>
              ELSE [i \in DOMAIN m |-> l @@ Restrict(m[i], cols)])
             \o LeftJoin(Tail(left), right, key, cols, missing)

\* pd.cut(amount, bins=[0, 100, 500, 1000, inf], labels=[...])
revenue_category(amount) ==
    IF amount = NULL \/ amount <= 0 THEN NoTier
    ELSE IF amount <= 100 THEN "Small"
    ELSE IF amount <= 500 THEN "Medium"
    ELSE IF amount <= 1000 THEN "Large"
    ELSE "Enterprise"

\* create_fact_table: the sales rows joined with the product and the customer
\* columns, revenue_category and date_key added
create_fact_table(sales_rows, product_rows, customer_rows) ==
    LET p == LeftJoin(sales_rows, product_rows, "product_id", {"category", "price_tier"},
                      [category |-> NullText, price_tier |-> NoTier])
        c == LeftJoin(p, customer_rows, "customer_id", {"region", "customer_segment"},
                      [region |-> NullText, customer_segment |-> NullText])
    IN  [i \in DOMAIN c |->
            c[i] @@ [revenue_category |-> revenue_category(c[i].amount),
                     date_key |-> c[i].sale_date]]

\* -------------------------------------------------- the tables passed to them
SalesRow(k, q, a, d) ==
    [sale_id |-> k, product_id |-> 101, customer_id |-> 201,
     quantity |-> q, amount |-> a, sale_date |-> d]
\* two valid rows (the second on the bounds of the ranges), a row repeating
\* sale_id 1 with amount 0, a row without sale_id and with a negative
\* quantity, a row above the range with a future date, a row whose date is no
\* date, and a row of missing values
SalesSamples ==
    { SalesRow(1, 2, 5, 20240101), SalesRow(2, 1000, 1000000, 20240102),
      SalesRow(1, 2, 0, 20240101), SalesRow(NULL, -1, 5, 20240101),
      SalesRow(3, 2000, -1, 20300103), SalesRow(4, 0, 0, BadDate),
      SalesRow(5, NULL, NULL, NULL) }

ProductRow(k, p) == [product_id |-> k, product_name |-> "widget", category |-> "home", price |-> p]
ProductSamples ==
    { ProductRow(1, 30), ProductRow(2, 50), ProductRow(3, 51), ProductRow(4, 200),
      ProductRow(5, 201), ProductRow(6, 500), ProductRow(7, 501), ProductRow(8, 0),
      ProductRow(9, -1), ProductRow(NULL, NULL) }

CustomerRow(k, e) == [customer_id |-> k, customer_name |-> "john doe", email |-> e, region |-> "north"]
CustomerSamples ==
    { CustomerRow(1, <<" ", "John", "@", "GMAIL.com", " ">>),
      CustomerRow(2, <<"a", "@", "company.com">>),
      CustomerRow(3, <<"a", "@", "example.org">>),
      CustomerRow(4, <<"john", "@">>),
      CustomerRow(5, EmailNoAt),
      CustomerRow(6, NullStr) }

FnDrops(name) ==
    CASE name = "sales" -> {{}, {"sale_id"}, {"quantity"}, {"sale_date"}}
      [] name = "products" -> {{}, {"product_id"}, {"price"}}
      [] name = "customers" -> {{}, {"customer_id"}, {"email"}}
      [] OTHER -> {{}}

FnSamples(name) ==
    CASE name = "sales" -> SalesSamples
      [] name = "products" -> ProductSamples
      [] name = "customers" -> CustomerSamples
      [] OTHER -> {FileRow("returns", 1, 5), FileRow("returns", 1, -1)}

\* the tables of an entity: as read (sale dates are texts) or, for sales,
\* with the dates converted, which a text that is no date cannot be
FnTables(name) ==
    {t \in {[cols |-> EntityCols(name) \ drop, datetime |-> dt,
             rows |-> [i \in DOMAIN rows |-> Restrict(rows[i], EntityCols(name) \ drop)]] :
               drop \in FnDrops(name), dt \in (IF name = "sales" THEN BOOLEAN ELSE {FALSE}),
               rows \in SeqsUpTo(FnSamples(name), MaxFnRows)} :
        t.datetime => ~\E i \in DOMAIN t.rows :
                          "sale_date" \in t.cols /\ t.rows[i].sale_date = BadDate}

\* ranges as rules may give them: both bounds, one, none, and a column the
\* sales table does not have
RangeChoices ==
    { <<[col |-> "quantity", min |-> 0, max |-> 1000]>>,
      <<[col |-> "quantity", min |-> 0]>>,
      <<[col |-> "quantity", max |-> 1000]>>,
      <<[col |-> "quantity"]>>,
      <<[col |-> "discount", min |-> 0, max |-> 1], [col |-> "amount", min |-> 0, max |-> 1000000]>> }

\* rows of an enriched sales table and of the dimension tables, by their keys
FactSales == {[sale_id |-> 1, product_id |-> 101, customer_id |-> 201, amount |-> 100, sale_date |-> 20240101],
              [sale_id |-> 2, product_id |-> 102, customer_id |-> 202, amount |-> 501, sale_date |-> 20240102],
              [sale_id |-> 3, product_id |-> NULL, customer_id |-> 201, amount |-> 0, sale_date |-> 20240103]}
FactProducts == {[product_id |-> 101, category |-> "HOME", price_tier |-> "Budget"],
                 [product_id |-> 103, category |-> "HOME", price_tier |-> "Luxury"],
                 [product_id |-> NULL, category |-> "UNCATEGORIZED", price_tier |-> NoTier]}
FactCustomers == {[customer_id |-> 201, region |-> "NORTH", customer_segment |-> "Personal"],
                  [customer_id |-> 203, region |-> "UNKNOWN", customer_segment |-> "Other"]}

\* ------------------------------------------------------------------ the calls
\* The functions keep no state: each behaviour makes one call.
pipeline_vars == <<config, files, tables, tables0, exists, staging, pipeline_runs,
                   data_quality_logs, run_id, pc, held, data, records_processed, error,
                   ret, ncalls, config_file>>

\* quality_manager.validate_data(df, table_name)
Validate ==
    /\ call = NoCall
    /\ \E name \in TableNames : \E df \in FnTables(name) :
          call' = [fn |-> "validate_data", arg |-> [df |-> df, table_name |-> name],
                   out |-> IF validate_raises(df, name)
                           THEN [raised |-> TRUE, results |-> <<>>]
                           ELSE [raised |-> FALSE, results |-> validate_data(df, name)]]
    /\ UNCHANGED pipeline_vars

\* quality_manager._check_numeric_ranges(df, numeric_ranges)
CheckNumericRanges ==
    /\ call = NoCall
    /\ \E df \in FnTables("sales") : \E ranges \in RangeChoices :
          call' = [fn |-> "check_numeric_ranges", arg |-> [df |-> df, numeric_ranges |-> ranges],
                   out |-> check_numeric_ranges(df, ranges)]
    /\ UNCHANGED pipeline_vars

\* transformer.transform_product_data(df)
TransformProduct ==
    /\ call = NoCall
    /\ \E df \in FnTables("products") :
          LET t == transform_product_data(df)
          IN  call' = [fn |-> "transform_product_data", arg |-> df,
                       out |-> [raised |-> t.raised,
                                price_tier |-> IF t.raised THEN <<>> ELSE price_tiers(df)]]
    /\ UNCHANGED pipeline_vars

\* transformer.transform_customer_data(df)
TransformCustomer ==
    /\ call = NoCall
    /\ \E df \in FnTables("customers") :
          LET t == transform_customer_data(df)
          IN  call' = [fn |-> "transform_customer_data", arg |-> df,
                       out |-> [raised |-> t.raised,
                                rows |-> IF t.raised THEN <<>> ELSE customer_segments(df)]]
    /\ UNCHANGED pipeline_vars

\* transformer.create_fact_table(sales_df, products_df, customers_df)
CreateFactTable ==
    /\ call = NoCall
    /\ \E s \in SeqsUpTo(FactSales, MaxFnRows) : \E p \in SeqsUpTo(FactProducts, MaxFnRows) :
       \E c \in SeqsUpTo(FactCustomers, MaxFnRows) :
          call' = [fn |-> "create_fact_table", arg |-> [sales |-> s, products |-> p, customers |-> c],
                   out |-> create_fact_table(s, p, c)]
    /\ UNCHANGED pipeline_vars

\* an orchestrator of the test configuration with nothing run, whose
\* transformer and quality manager are called on their own
InitFn ==
    /\ config = CfgTest
    /\ config_file = ConfigFile(CfgTest)
    /\ files = [n \in {"sales"} |-> [readable |-> FALSE, table |-> EmptyTable]]
    /\ exists = SchemaTables
    /\ tables = [t \in TableNames |-> <<>>]
    /\ tables0 = tables
    /\ staging = [t \in TableNames |-> <<>>]
    /\ pipeline_runs = <<>>
    /\ data_quality_logs = <<>>
    /\ run_id = None
    /\ pc = "idle"
    /\ held = "none"
    /\ data = EmptyDict
    /\ records_processed = 0
    /\ error = ""
    /\ ret = "none"
    /\ ncalls = 0
    /\ call = NoCall

NextFn ==
    \/ Validate
    \/ CheckNumericRanges
    \/ TransformProduct
    \/ TransformCustomer
    \/ CreateFactTable

SpecFn == InitFn /\ [][NextFn]_vars

\* =================================================== claims on the functions
Validated1 == call.fn = "validate_data"
\* the six results, each as its check gives it on its own
Independent(df, name, results) ==
    /\ Len(results) = 6
    /\ results[1] = Result("required_columns", check_required_columns(df, Rules[name].required_columns))
    /\ results[2] = Result("not_null_columns", check_not_null(df, Rules[name].not_null_columns))
    /\ results[3] = Result("numeric_ranges", check_numeric_ranges(df, Rules[name].numeric_ranges))
    /\ results[4] = Result("unique_columns", check_unique_columns(df, Rules[name].unique_columns))
    /\ results[5] = Result("data_types", check_data_types(df, name))
    /\ results[6] = Result("custom_checks", run_custom_checks(df, name))

ValidRawSales(df) ==
    /\ ~df.datetime
    /\ df.cols = SalesCols
    /\ df.rows # <<>>
    /\ \A i \in DOMAIN df.rows :
         LET r == df.rows[i]
         IN  /\ r.sale_id # NULL /\ r.product_id # NULL /\ r.customer_id # NULL
             /\ r.sale_date \notin {NULL, BadDate} /\ r.sale_date <= Now
             /\ r.quantity # NULL /\ r.quantity >= 0 /\ r.quantity <= 1000
             /\ r.amount # NULL /\ r.amount >= 0 /\ r.amount <= 1000000
             /\ ~(r.quantity > 0 /\ r.amount = 0)
             /\ \A j \in DOMAIN df.rows : df.rows[j].sale_id = r.sale_id => j = i

\* C13: validate_data on a valid sales table as read from a source, the sale
\* dates still texts, reports passed for every check type.
C13_ValidRawSalesPasses ==
    (Validated1 /\ call.arg.table_name = "sales" /\ ValidRawSales(call.arg.df))
        => /\ ~call.out.raised
           /\ Len(call.out.results) = 6
           /\ \A i \in DOMAIN call.out.results : call.out.results[i].passed

\* the rows with an email that is present and holds no "@"
InvalidEmails(df) ==
    {i \in DOMAIN df.rows : df.rows[i].email # NullStr /\ "@" \notin Range(df.rows[i].email)}

\* C14: the custom check of a customers table counts as invalid the rows whose
\* email is present and holds no "@"; a missing email is not counted, so the
\* check passes when every email is missing or holds "@".
C14_NullEmailsNotCounted ==
    (Validated1 /\ call.arg.table_name = "customers" /\ "email" \in call.arg.df.cols)
        => LET custom == call.out.results[6]
               n == Cardinality(InvalidEmails(call.arg.df))
           IN  /\ custom.passed <=> n = 0
               /\ custom.details = Issue("customers have invalid email formats", n)

TransformedCustomers == call.fn = "transform_customer_data" /\ ~call.out.raised

\* C15: for every row, customer_segment is Corporate when the domain of the
\* normalized email is in the corporate list, Personal when it is in the
\* personal list, Unknown when the domain is empty or missing (the email is
\* missing or holds no "@"), and Other for any other domain.
C15_SegmentFromDomain ==
    TransformedCustomers =>
        \A i \in DOMAIN call.out.rows :
            LET e == normalize_email(call.arg.rows[i].email)
                d == email_domain(e)
                segment == call.out.rows[i].customer_segment
            IN  IF e = NullStr \/ "@" \notin Range(e) \/ d = <<>> THEN segment = "Unknown"
                ELSE IF d \in corporate_domains THEN segment = "Corporate"
                ELSE IF d \in personal_domains THEN segment = "Personal"
                ELSE segment = "Other"

\* C16: create_fact_table returns one fact row for each sales row, whatever
\* the products and customers tables hold.
C16_FactRowPerSale ==
    call.fn = "create_fact_table" => Len(call.out) = Len(call.arg.sales)

\* C17: transform_product_data gives each row the price tier of the bin
\* closed on the right that holds its price: Budget iff 0 < price <= 50,
\* Standard iff 50 < price <= 200, Premium iff 200 < price <= 500, Luxury iff
\* price > 500; a price above 0 has exactly one tier, a price of 0 or less none.
C17_PriceTierBins ==
    (call.fn = "transform_product_data" /\ ~call.out.raised) =>
        /\ Len(call.out.price_tier) = Len(call.arg.rows)
        /\ \A i \in DOMAIN call.arg.rows :
             LET price == call.arg.rows[i].price
                 tier == call.out.price_tier[i]
                 known == price # NULL
             IN  /\ tier = "Budget" <=> (known /\ 0 < price /\ price <= 50)
                 /\ tier = "Standard" <=> (known /\ 50 < price /\ price <= 200)
                 /\ tier = "Premium" <=> (known /\ 200 < price /\ price <= 500)
                 /\ tier = "Luxury" <=> (known /\ price > 500)
                 /\ (known /\ price > 0) => tier \in {"Budget", "Standard", "Premium", "Luxury"}
                 /\ (known /\ price <= 0) => tier = NoTier

\* the prices on the three inner bounds got the lower-priced tiers
C17_Witness ==
    /\ call.fn = "transform_product_data"
    /\ ~call.out.raised
    /\ Len(call.arg.rows) = 3
    /\ call.arg.rows[1].price = 50 /\ call.arg.rows[2].price = 200 /\ call.arg.rows[3].price = 500
    /\ call.out.price_tier = <<"Budget", "Standard", "Premium">>

\* the rows of df whose value of the column of range g is below its min, above
\* its max; none when the range lacks the bound
BelowMin(df, g) ==
    {i \in DOMAIN df.rows : "min" \in DOMAIN g /\ df.rows[i][g.col] # NULL /\ df.rows[i][g.col] < g.min}
AboveMax(df, g) ==
    {i \in DOMAIN df.rows : "max" \in DOMAIN g /\ df.rows[i][g.col] # NULL /\ df.rows[i][g.col] > g.max}

\* C18: the numeric-range check counts, for each configured column the table
\* has, the values strictly below min and strictly above max (a value on a
\* bound is in range, a bound not given excludes nothing); it passes iff every
\* count is zero; its details name exactly the columns with a count above
\* zero, in the order configured, each with its two counts; a configured
\* column the table lacks is skipped.
C18_NumericRangeCounts ==
    call.fn = "check_numeric_ranges" =>
        LET df == call.arg.df
            ranges == call.arg.numeric_ranges
            out_of_range(g) == g.col \in df.cols /\ (BelowMin(df, g) # {} \/ AboveMax(df, g) # {})
            flagged == SelectSeq(ranges, out_of_range)
        IN  /\ call.out.passed <=> \A k \in DOMAIN ranges : ~out_of_range(ranges[k])
            /\ Len(call.out.details) = Len(flagged)
            /\ \A k \in DOMAIN flagged :
                 call.out.details[k] = <<flagged[k].col, Cardinality(BelowMin(df, flagged[k])),
                                         Cardinality(AboveMax(df, flagged[k]))>>

\* quantities -1, 2, 2000 against the range 0..1000: one below, one above
C18_Witness ==
    /\ call.fn = "check_numeric_ranges"
    /\ call.arg.numeric_ranges = <<[col |-> "quantity", min |-> 0, max |-> 1000]>>
    /\ "quantity" \in call.arg.df.cols
    /\ [i \in DOMAIN call.arg.df.rows |-> call.arg.df.rows[i].quantity] = <<-1, 2, 2000>>
    /\ call.out = [passed |-> FALSE, details |-> <<<<"quantity", 1, 1>>>>]

\* ============================================================ construction
\* self.config before _load_config returned
NoConfig == [pipeline_name |-> "", sources |-> <<>>, destinations |-> <<>>]
\* a configuration file that is missing, cannot be read, or holds no JSON
BadConfigFiles ==
    {[status |-> st, content |-> NoConfig] : st \in {"missing", "unreadable", "invalid_json"}}
\* a run record an earlier process left in the ledger
EarlierRun ==
    [pipeline_name |-> "test_pipeline", status |-> "COMPLETED", start_time |-> "now",
     end_time |-> "now", records_processed |-> 1, error_message |-> NullText]

\* _load_config as it would be if it returned an empty configuration instead
\* of raising again
load_config_swallowed(file) ==
    IF file.status = "ok"
    THEN [raised |-> FALSE, error |-> "", config |-> file.content]
    ELSE [raised |-> FALSE, error |-> "", config |-> NoConfig]

\* _load_config: open and json.load; any exception is logged and raised again
load_config(file) ==
    IF file.status = "ok"
    THEN [raised |-> FALSE, error |-> "", config |-> file.content]
    ELSE [raised |-> TRUE,
          error |-> CASE file.status = "missing" -> "No such file or directory"
                      [] file.status = "unreadable" -> "Permission denied"
                      [] OTHER -> "Expecting value",
          config |-> NoConfig]

\* SalesDataPipeline(config_path): on an exception of _load_config no
\* orchestrator exists (pc = "failed"), else it is idle with run_id None
Construct ==
    /\ pc = "new"
    /\ LET r == load_config(config_file)
       IN  IF r.raised
           THEN /\ pc' = "failed"
                /\ error' = r.error
                /\ ret' = "raised"
                /\ UNCHANGED <<config, run_id>>
           ELSE /\ config' = r.config
                /\ run_id' = None
                /\ pc' = "idle"
                /\ UNCHANGED <<error, ret>>
    /\ UNCHANGED <<config_file, call, files, tables, tables0, exists, staging, pipeline_runs,
                   data_quality_logs, held, data, records_processed, ncalls>>

\* the store and the files before an orchestrator is constructed
InitNew ==
    /\ config_file \in {ConfigFile(cfg) : cfg \in Configs} \cup BadConfigFiles
    /\ config = NoConfig
    /\ call = NoCall
    /\ files \in FileMaps(CsvNames(config_file.content))
    /\ exists = SchemaTables
    /\ \E pre \in BOOLEAN :
          tables = [t \in TableNames |->
                      IF pre /\ config_file.status = "ok"
                             /\ t = config_file.content.destinations[1].table
                      THEN <<Preloaded(t)>> ELSE <<>>]
    /\ tables0 = tables
    /\ staging = [t \in TableNames |-> <<>>]
    /\ pipeline_runs \in (IF config_file.status = "ok" THEN {<<>>} ELSE {<<>>, <<EarlierRun>>})
    /\ data_quality_logs = <<>>
    /\ run_id = None
    /\ pc = "new"
    /\ held = "none"
    /\ data = EmptyDict
    /\ records_processed = 0
    /\ error = ""
    /\ ret = "none"
    /\ ncalls = 0

NextNew ==
    \/ Construct
    \/ Next

SpecNew == InitNew /\ [][NextNew]_vars

\* C19: when the configuration file is missing, unreadable or no valid JSON,
\* the construction raises, leaving the run ledger, the quality log and every
\* table as they were, and no step follows: no run is opened, and no extract,
\* transform or load is executed.
C19_ConfigErrorFatal ==
    /\ [][ (pc = "new" /\ config_file.status # "ok")
             => /\ pc' = "failed"
                /\ ret' = "raised"
                /\ pipeline_runs' = pipeline_runs
                /\ data_quality_logs' = data_quality_logs
                /\ StoreUnwritten
                /\ data' = data /\ held' = held /\ ncalls' = ncalls
         ]_vars
    /\ [][pc # "failed"]_vars
    /\ [](pc = "failed" => ncalls = 0 /\ held = "none" /\ data_quality_logs = <<>>
                           /\ tables = tables0 /\ pipeline_runs \in {<<>>, <<EarlierRun>>})

\* the construction raised on a file that holds no JSON; the record of an
\* earlier run is as it was
C19_Witness ==
    /\ pc = "failed"
    /\ ret = "raised"
    /\ config_file.status = "invalid_json"
    /\ pipeline_runs = <<EarlierRun>>

RECURSIVE RowsFrom(_)
\* the rows of the sources held over the destinations from i on, a
\* destination whose source is not held counting 0
RowsFrom(i) ==
    IF i > Len(config.destinations) THEN 0
    ELSE (IF config.destinations[i].source \in DOMAIN data.tables
          THEN Len(data.tables[config.destinations[i].source].rows) ELSE 0)
         + RowsFrom(i + 1)

\* C20: a load() that returns gives the sum, over the destinations whose
\* source is held, of the rows of that source's table, a source of two
\* destinations counted twice and a destination without its source adding
\* nothing; a table whose destinations all lack their source keeps its staging
\* and its destination table.
C20_LoadTotal ==
    [][ LoadStep =>
          /\ ~Load(config, data, Store).raised => records_processed' = RowsFrom(1)
          /\ \A t \in TableNames :
                StagedFor(t) = {} => staging'[t] = staging[t] /\ tables'[t] = tables[t]
      ]_vars

\* the load of a run has returned 2 for one returns row appended and merged,
\* an empty customers table, and a products destination without its source
C20_Witness ==
    /\ config = CfgMixed
    /\ pc = "complete"
    /\ "products" \notin DOMAIN data.tables
    /\ Len(data.tables["returns"].rows) = 1
    /\ Len(data.tables["customers"].rows) = 0
    /\ records_processed = 2
    /\ staging["products"] = <<>>
    /\ Len(tables["returns"]) = 2

\* ===================================================== ledger write failures
\* The store can refuse a write of the run ledger (the database is locked,
\* the disk is full): the statement or the commit raises sqlite3.Error.
StoreError == "database is locked"

\* run(), line 191, when _start_pipeline_run raises: at connect or INSERT,
\* before self.run_id is assigned (it keeps the id of the run before), or at
\* commit, after it was assigned the id of the row that is then rolled back
RunStartFails ==
    /\ pc = "idle"
    /\ ncalls < MaxCalls
    /\ \E assigned \in BOOLEAN :
          run_id' = IF assigned THEN Len(pipeline_runs) + 1 ELSE run_id
    /\ error' = StoreError
    /\ pc' = "except"
    /\ held' = "none"
    /\ data' = EmptyDict
    /\ ret' = "none"
    /\ ncalls' = ncalls + 1
    /\ UNCHANGED <<config_file, call, config, files, tables0, tables, exists, staging,
                   pipeline_runs, data_quality_logs, records_processed>>

\* run(), line 202, when _end_pipeline_run('COMPLETED', ...) raises: the
\* UPDATE is not committed and the handler is entered
RunCompleteFails ==
    /\ pc = "complete"
    /\ error' = StoreError
    /\ pc' = "except"
    /\ UNCHANGED <<config_file, call, config, files, tables0, tables, exists, staging,
                   pipeline_runs, data_quality_logs, run_id, held, data, records_processed,
                   ret, ncalls>>

\* run(), line 208, when _end_pipeline_run('FAILED', ...) raises inside the
\* handler: the exception leaves run()
RunExceptFails ==
    /\ pc = "except"
    /\ error' = StoreError
    /\ ret' = "raised"
    /\ pc' = "idle"
    /\ held' = "none"
    /\ data' = EmptyDict
    /\ UNCHANGED <<config_file, call, config, files, tables0, tables, exists, staging,
                   pipeline_runs, data_quality_logs, run_id, records_processed, ncalls>>

NextFault ==
    \/ Next
    \/ RunStartFails
    \/ RunCompleteFails
    \/ RunExceptFails

SpecFault == Init /\ [][NextFault]_vars

\* C21: no step of a run() changes a run record that is COMPLETED or FAILED,
\* also when the run failed to open its own record.
C21_FinishedRecordsKept ==
    [][ \A i \in DOMAIN pipeline_runs :
           pipeline_runs[i].status \in {"COMPLETED", "FAILED"}
              => i \in DOMAIN pipeline_runs' /\ pipeline_runs'[i] = pipeline_runs[i]
      ]_vars

\* C22: when the first run() of an orchestrator has ended with its record
\* FAILED and records_processed = 0, and nothing else was called, the
\* destination tables are as they were before the run.
C22_FailedRunLoadedNothing ==
    ( /\ pc = "idle"
      /\ ncalls = 1
      /\ Len(pipeline_runs) = 1
      /\ pipeline_runs[1].status = "FAILED"
      /\ pipeline_runs[1].records_processed = 0 )
    => tables = tables0

====
